---------------------------- MODULE Spec2Model ----------------------------
(***************************************************************************)
(* Model of the awslambda deployment tool.                                 *)
(*                                                                         *)
(* Two scripts of the repository are modelled: src/awslambda/deploy.py     *)
(* (the packaged command `deploy`) and src/lambda_deploy.py (the earlier   *)
(* command `deploy_lambda`).  One run of a script is a sequence of steps:  *)
(* temp_zipfile, temp_dir, pip_install, zip_tree, Lambdas(list_functions), *)
(* temp_s3file (upload), the remote calls, and the cleanups of the three   *)
(* context managers.  The remote function service and the storage bucket   *)
(* are part of the state.                                                  *)
(***************************************************************************)
EXTENDS Integers, Sequences, FiniteSets, TLC

(***************************************************************************)
(* Bounds of the model.                                                    *)
(***************************************************************************)
\* total number of --delete/--create/--update items and manifest entries
MaxOps == 2
\* number of --sync manifest files on one command line
MaxFiles == 2
\* number of consecutive runs of the same command line
MaxRuns == 2
\* zip_tree: number of files in a tree
MaxTreeFiles == 2
\* zip_tree: number of directories between the root and a file
MaxDepth == 2

(***************************************************************************)
(* Values.                                                                 *)
(***************************************************************************)
None == "None"
Names == {"f1", "f2"}
\* two handlers that differ only in case, so that a normalising comparison
\* and the structural one of the code can be told apart
Handlers == {"m.h", "m.H"}
Roles == {"r1", "r2"}
Scripts == {"deploy", "lambda_deploy"}

BSeq(S, n) == UNION {[1..k -> S] : k \in 0..n}

Range(s) == {s[k] : k \in 1..Len(s)}

\* Lambdas.Props: the namedtuple (handler, role)
Props(handler, role) == [handler |-> handler, role |-> role]

PropsSet == {Props(h, r) : h \in Handlers, r \in Roles}

\* one manifest entry name -> {handler, role}
Entries == [name : Names, handler : Handlers, role : Roles]

\* the --create NAME HANDLER ROLE items tried: any name, one handler and role
CreateItems == [name : Names, handler : {"m.H"}, role : {"r2"}]

\* a manifest is a YAML mapping: names are unique within one file;
\* cfg.iteritems() yields its entries in some order
Manifests ==
    {m \in BSeq(Entries, Cardinality(Names)) :
        /\ Len(m) > 0
        /\ \A a, b \in 1..Len(m) : a # b => m[a].name # m[b].name}

RECURSIVE SumLen(_)
SumLen(s) == IF s = <<>> THEN 0 ELSE Len(s[1]) + SumLen(Tail(s))

RECURSIVE Flatten(_)
Flatten(s) == IF s = <<>> THEN <<>> ELSE s[1] \o Flatten(Tail(s))

\* the --sync options of a command line with at most n entries in total
AllSyncs == BSeq(Manifests, MaxFiles)

SyncsOf(n) == {s \in AllSyncs : SumLen(s) <= n}

VARIABLES
    script,     \* which script runs
    run,        \* number of the current run
    outcomes,   \* how the earlier runs ended: the exception, or None
    pc,         \* position of the run in the script
    err,        \* the exception propagating, or None
    remote,     \* the function service: a mapping name -> Props
    lambdas,    \* Lambdas.functions, the snapshot of list_functions
    args,       \* the command line: delete, create, update, sync
    delete,     \* deploy.py: the list `delete`
    create,     \* deploy.py: the list `create`
    update,     \* deploy.py: the list `update`
    do,         \* lambda_deploy.py: the closure `do` chosen by do_sync
    i,          \* index of the loop in progress
    calls,      \* the remote calls issued by this run, in order
    bucket,     \* keys of the objects in the storage bucket
    staged,     \* the (bucket, key) yielded by temp_s3file, or <<>>
    log,        \* acquisitions and releases of temporary resources
    root,       \* zip_tree: the name of the root directory
    files,      \* zip_tree: the files of the tree, as paths below the root
    pending,    \* zip_tree: the directories os.walk has still to yield
    archive     \* zip_tree: the arcnames written to the zip file

vars == <<script, run, outcomes, pc, err, remote, lambdas, args, delete, create,
          update, do, i, calls, bucket, staged, log, root, files, pending,
          archive>>

zipvars == <<root, files, pending, archive>>

runvars == <<run, outcomes, err, remote, lambdas, args, delete, create,
             update, do, i, calls, bucket, staged, log>>

lists == <<delete, create, update, do>>

NoArgs == [delete |-> <<>>, create |-> <<>>, update |-> <<>>, sync |-> <<>>]

\* no closure chosen
NoDo == [kind |-> None]

\* a mapping without names
Empty == [n \in {} |-> None]

\* the mapping f without name n
Without(f, n) == [m \in DOMAIN f \ {n} |-> f[m]]

\* the mapping f with name n set to v
With(f, n, v) == [m \in DOMAIN f \cup {n} |-> IF m = n THEN v ELSE f[m]]

\* the initial functions: each name absent, or deployed as (m.h, r1)
InitialRemotes == UNION {[S -> {Props("m.h", "r1")}] : S \in SUBSET Names}

\* os.path.basename(filename) of the mkstemp archive of run n
Key(n) == <<"tmp", n, ".zip">>

S3Bucket == "s3_bucket"

Init ==
    /\ script \in Scripts
    /\ run = 1
    /\ outcomes = <<>>
    /\ pc = "start"
    /\ err = None
    /\ remote \in InitialRemotes
    /\ lambdas = Empty
    /\ args = NoArgs
    /\ delete = <<>>
    /\ create = <<>>
    /\ update = <<>>
    /\ do = NoDo
    /\ i = 0
    /\ calls = <<>>
    /\ bucket = {}
    /\ staged = <<>>
    /\ log = <<>>
    /\ root = <<>>
    /\ files = {}
    /\ pending = <<>>
    /\ archive = {}


(***************************************************************************)
(* Command lines.  lambda_deploy.py has no --delete option.                *)
(***************************************************************************)
CommandLines(s) ==
    UNION {
        {[delete |-> d, create |-> c, update |-> u, sync |-> y] :
            d \in [1..t[1] -> Names], c \in [1..t[2] -> CreateItems],
            u \in [1..t[3] -> Names],
            y \in SyncsOf(MaxOps - t[1] - t[2] - t[3])} :
        t \in {t \in (0..MaxOps) \X (0..MaxOps) \X (0..MaxOps) :
                  /\ t[1] + t[2] + t[3] <= MaxOps
                  /\ s = "lambda_deploy" => t[1] = 0}}

\* the command lines tried for awslambda/deploy.py
DeployCommandLines == CommandLines("deploy")

\* the command lines tried for lambda_deploy.py
LambdaDeployCommandLines == CommandLines("lambda_deploy")

(***************************************************************************)
(* Lambdas: the helper class for existing lambdas.                         *)
(***************************************************************************)
\* Lambdas.__init__ with the handler and the role of a listed function swapped
LambdasSwapped(functions) ==
    [n \in DOMAIN functions |-> Props(functions[n].role, functions[n].handler)]

\* Lambdas.__init__: name -> Props for every function the service lists
Lambdas(functions) == [n \in DOMAIN functions |-> functions[n]]

\* Lambdas.__contains__
Contains(L, name) == name \in DOMAIN L

\* the handler in lower case
Lower(h) == IF h = "m.H" THEN "m.h" ELSE h

\* is_equivalent with Props built as (role, handler)
is_equivalentSwapped(L, name, handler, role) == Props(role, handler) = L[name]

\* is_equivalent comparing the handlers without regard to case
is_equivalentCaseless(L, name, handler, role) ==
    /\ Lower(handler) = Lower(L[name].handler)
    /\ role = L[name].role

\* Lambdas.is_equivalent: tuple equality of Props(handler, role) and self[name]
is_equivalent(L, name, handler, role) == Props(handler, role) = L[name]

(***************************************************************************)
(* The function service (the boto3 lambda client).                         *)
(***************************************************************************)
\* delete_function succeeds on an existing function
DeleteOk(name) == name \in DOMAIN remote

\* create_function succeeds on a free name whose code object exists
CreateOk(name, code) ==
    /\ name \notin DOMAIN remote
    /\ code # <<>>
    /\ code[2] \in bucket

\* update_function_code succeeds on an existing function whose code object exists
UpdateOk(name, code) ==
    /\ name \in DOMAIN remote
    /\ code # <<>>
    /\ code[2] \in bucket

Call(op, name, handler, role, code, ok) ==
    [op |-> op, name |-> name, handler |-> handler, role |-> role,
     code |-> code, ok |-> ok]

Event(ev, res) == [ev |-> ev, res |-> res]

(***************************************************************************)
(* The steps shared by both scripts.                                       *)
(***************************************************************************)
\* pip_install: a nonzero result raises RuntimeError
pip_install(result) == IF result # 0 THEN "RuntimeError" ELSE None

\* temp_zipfile, entry: mkstemp and ZipFile
TempZipfileEnter ==
    /\ pc = "start"
    /\ log' = Append(log, Event("acquire", "zipfile"))
    /\ pc' = "temp_dir"
    /\ UNCHANGED <<zipvars, script, run, outcomes, err, remote, lambdas,
                   args, lists, i, calls, bucket, staged>>

\* temp_dir, entry: mkdtemp
TempDirEnter ==
    /\ pc = "temp_dir"
    /\ log' = Append(log, Event("acquire", "dir"))
    /\ pc' = "requirements"
    /\ UNCHANGED <<zipvars, script, run, outcomes, err, remote, lambdas,
                   args, lists, i, calls, bucket, staged>>

\* 'Collecting requirements' and 'Packaging requirements'; deploy.py skips
\* both when no requirements file is given, lambda_deploy.py requires one
CollectRequirements ==
    /\ pc = "requirements"
    /\ \E requirements \in {None, "requirements.txt"}, result \in {0, 1} :
        /\ script = "lambda_deploy" => requirements # None
        /\ requirements = None => result = 0
        /\ err' = IF requirements # None THEN pip_install(result) ELSE None
    /\ pc' = "rmtree"
    /\ UNCHANGED <<zipvars, script, run, outcomes, remote, lambdas, args,
                   lists, i, calls, bucket, staged, log>>

\* temp_dir without try/finally: rmtree runs only when the body succeeded
TempDirExitOnSuccess ==
    /\ pc = "rmtree"
    /\ log' = IF err # None THEN log ELSE Append(log, Event("release", "dir"))
    /\ pc' = IF err # None THEN "remove" ELSE "packaging"
    /\ UNCHANGED <<zipvars, script, run, outcomes, err, remote, lambdas,
                   args, lists, i, calls, bucket, staged>>

\* temp_dir, finally: shutil.rmtree
TempDirExit ==
    /\ pc = "rmtree"
    /\ log' = Append(log, Event("release", "dir"))
    /\ pc' = IF err # None THEN "remove" ELSE "packaging"
    /\ UNCHANGED <<zipvars, script, run, outcomes, err, remote, lambdas,
                   args, lists, i, calls, bucket, staged>>

\* 'Packaging code': zip_tree(zf, source_dir) and zf.close()
PackagingCode ==
    /\ pc = "packaging"
    /\ pc' = "connecting"
    /\ UNCHANGED <<zipvars, script, run, outcomes, err, remote, lambdas,
                   args, lists, i, calls, bucket, staged, log>>

\* 'Connecting to AWS': Lambdas(lambda_) takes the snapshot, or the listing fails
ConnectingToAWS ==
    /\ pc = "connecting"
    /\ \E fault \in BOOLEAN :
        /\ lambdas' = IF fault THEN lambdas ELSE Lambdas(remote)
        /\ err' = IF fault THEN "ClientError" ELSE None
        /\ pc' = IF fault THEN "remove" ELSE "upload"
    /\ UNCHANGED <<zipvars, script, run, outcomes, remote, args, lists, i,
                   calls, bucket, staged, log>>

\* where the body of `with temp_s3file(...)` starts
BodyStart == IF script = "deploy" THEN "plan" ELSE "map_create"

\* temp_s3file yielding the local filename in place of the key
TempS3fileEnterYieldsPath ==
    /\ pc = "upload"
    /\ \E fault \in BOOLEAN :
        /\ bucket' = IF fault THEN bucket ELSE bucket \cup {Key(run)}
        /\ staged' = IF fault THEN staged ELSE <<S3Bucket, <<"/tmp">> \o Key(run)>>
        /\ log' = IF fault THEN log ELSE Append(log, Event("acquire", "s3file"))
        /\ err' = IF fault THEN "ClientError" ELSE None
        /\ pc' = IF fault THEN "remove" ELSE BodyStart
    /\ UNCHANGED <<zipvars, script, run, outcomes, remote, lambdas, args,
                   lists, i, calls>>

\* temp_s3file, entry: upload_file, then yield (bucket, key)
TempS3fileEnter ==
    /\ pc = "upload"
    /\ \E fault \in BOOLEAN :
        /\ bucket' = IF fault THEN bucket ELSE bucket \cup {Key(run)}
        /\ staged' = IF fault THEN staged ELSE <<S3Bucket, Key(run)>>
        /\ log' = IF fault THEN log ELSE Append(log, Event("acquire", "s3file"))
        /\ err' = IF fault THEN "ClientError" ELSE None
        /\ pc' = IF fault THEN "remove" ELSE BodyStart
    /\ UNCHANGED <<zipvars, script, run, outcomes, remote, lambdas, args,
                   lists, i, calls>>

\* temp_s3file without try/finally: delete_object runs only when the body
\* succeeded
TempS3fileExitOnSuccess ==
    /\ pc = "s3delete"
    /\ \E fault \in BOOLEAN :
        /\ err # None => ~fault
        /\ bucket' = IF fault \/ err # None THEN bucket ELSE bucket \ {staged[2]}
        /\ log' = IF err # None THEN log
                  ELSE Append(log, Event(IF fault THEN "leak" ELSE "release", "s3file"))
        /\ err' = IF fault THEN "ClientError" ELSE err
    /\ pc' = "remove"
    /\ UNCHANGED <<zipvars, script, run, outcomes, remote, lambdas, args,
                   lists, i, calls, staged>>

\* temp_s3file, finally: delete_object; when the deletion itself fails the
\* object stays and the failure propagates
TempS3fileExit ==
    /\ pc = "s3delete"
    /\ \E fault \in BOOLEAN :
        /\ bucket' = IF fault THEN bucket ELSE bucket \ {staged[2]}
        /\ log' = Append(log, Event(IF fault THEN "leak" ELSE "release", "s3file"))
        /\ err' = IF fault THEN "ClientError" ELSE err
    /\ pc' = "remove"
    /\ UNCHANGED <<zipvars, script, run, outcomes, remote, lambdas, args,
                   lists, i, calls, staged>>

\* temp_zipfile, finally: os.remove
TempZipfileExit ==
    /\ pc = "remove"
    /\ log' = Append(log, Event("release", "zipfile"))
    /\ pc' = "done"
    /\ UNCHANGED <<zipvars, script, run, outcomes, err, remote, lambdas,
                   args, lists, i, calls, bucket, staged>>

\* after a run without error the same command line is run again; the
\* functions and the bucket persist
Rerun ==
    /\ pc = "done"
    /\ err = None
    /\ run < MaxRuns
    /\ run' = run + 1
    /\ outcomes' = Append(outcomes, err)
    /\ pc' = "start"
    /\ err' = None
    /\ lambdas' = Empty
    /\ delete' = <<>>
    /\ create' = <<>>
    /\ update' = <<>>
    /\ do' = NoDo
    /\ i' = 0
    /\ calls' = <<>>
    /\ staged' = <<>>
    /\ log' = <<>>
    /\ UNCHANGED <<zipvars, script, remote, args, bucket>>

(***************************************************************************)
(* awslambda/deploy.py: the body of `with temp_s3file(...)`.               *)
(***************************************************************************)
\* the iteration without its outer else branch: an unknown name plans nothing
SyncEntryLostCreate(L, plan, e) ==
    IF Contains(L, e.name)
    THEN IF is_equivalent(L, e.name, e.handler, e.role)
         THEN [plan EXCEPT !.update = Append(@, e.name)]
         ELSE [plan EXCEPT !.delete = Append(@, e.name),
                           !.create = Append(@, e)]
    ELSE plan

\* the iteration planning a changed function's create without its delete
SyncEntryNoDelete(L, plan, e) ==
    IF Contains(L, e.name)
    THEN IF is_equivalent(L, e.name, e.handler, e.role)
         THEN [plan EXCEPT !.update = Append(@, e.name)]
         ELSE [plan EXCEPT !.create = Append(@, e)]
    ELSE [plan EXCEPT !.create = Append(@, e)]

\* one iteration of `for name, value in cfg.iteritems()`
SyncEntry(L, plan, e) ==
    IF Contains(L, e.name)
    THEN IF is_equivalent(L, e.name, e.handler, e.role)
         THEN [plan EXCEPT !.update = Append(@, e.name)]
         ELSE [plan EXCEPT !.delete = Append(@, e.name),
                           !.create = Append(@, e)]
    ELSE [plan EXCEPT !.create = Append(@, e)]

\* `for f in sync`: every entry of every manifest, in order
RECURSIVE SyncLoop(_, _, _)
SyncLoop(L, plan, entries) ==
    IF entries = <<>> THEN plan
    ELSE SyncLoop(L, SyncEntry(L, plan, Head(entries)), Tail(entries))

\* the lists delete, create, update after the sync loop
Planned(L, a) ==
    SyncLoop(L, [delete |-> a.delete, create |-> a.create, update |-> a.update],
             Flatten(a.sync))

\* the loops with 'Creating functions' placed first
PhaseOrderCreateFirst == <<"creating", "deleting", "updating">>

\* the loops 'Deleting functions', 'Creating functions', 'Updating functions'
\* follow each other in this order
PhaseOrder == <<"deleting", "creating", "updating">>

ListOf(phase, d, c, u) ==
    IF phase = "deleting" THEN d ELSE IF phase = "creating" THEN c ELSE u

\* the k-th loop and those after it: the first with an item starts at its
\* first item; when none has one the body of the with block ends
RECURSIVE EnterPhase(_, _, _, _)
EnterPhase(k, d, c, u) ==
    IF k > Len(PhaseOrder) THEN <<"s3delete", 0>>
    ELSE IF Len(ListOf(PhaseOrder[k], d, c, u)) > 0 THEN <<PhaseOrder[k], 1>>
    ELSE EnterPhase(k + 1, d, c, u)

\* after item k of a loop: its next item, or the loops after it
NextItem(phase, k, d, c, u) ==
    IF k < Len(ListOf(phase, d, c, u)) THEN <<phase, k + 1>>
    ELSE EnterPhase(1 + CHOOSE j \in DOMAIN PhaseOrder : PhaseOrder[j] = phase,
                    d, c, u)

\* the command line given to a run
CommandLine ==
    IF run > 1 THEN {args}
    ELSE IF script = "deploy" THEN DeployCommandLines
    ELSE LambdaDeployCommandLines

\* lines 266-280: the lists are copied and the manifests read and planned
Plan ==
    /\ pc = "plan"
    /\ script = "deploy"
    /\ \E a \in CommandLine :
        LET p == Planned(lambdas, a) IN
        /\ args' = a
        /\ delete' = p.delete
        /\ create' = p.create
        /\ update' = p.update
        /\ pc' = EnterPhase(1, p.delete, p.create, p.update)[1]
        /\ i' = EnterPhase(1, p.delete, p.create, p.update)[2]
    /\ UNCHANGED <<zipvars, script, run, outcomes, err, remote, lambdas, do,
                   calls, bucket, staged, log>>

\* a step of the run that raises: the body is left for temp_s3file's finally
Raise(e) ==
    /\ err' = e
    /\ pc' = "s3delete"
    /\ i' = i

\* a step that completes and goes on at position next = <<pc, i>>
Goto(next) ==
    /\ err' = None
    /\ pc' = next[1]
    /\ i' = next[2]

\* lambda_.delete_function(FunctionName=name)
delete_function(name, fault, next) ==
    LET ok == ~fault /\ DeleteOk(name) IN
    /\ calls' = Append(calls, Call("delete", name, None, None, <<>>, ok))
    /\ remote' = IF ok THEN Without(remote, name) ELSE remote
    /\ IF ok THEN Goto(next) ELSE Raise("ClientError")

\* create_function in a loop that swallows the error and goes on
create_functionSwallowed(e, fault, next) ==
    LET ok == ~fault /\ CreateOk(e.name, staged) IN
    /\ calls' = Append(calls, Call("create", e.name, e.handler, e.role, staged, ok))
    /\ remote' = IF ok THEN With(remote, e.name, Props(e.handler, e.role))
                 ELSE remote
    /\ Goto(next)

\* lambda_.create_function(FunctionName, Runtime, Role, Handler, Code)
create_function(e, fault, next) ==
    LET ok == ~fault /\ CreateOk(e.name, staged) IN
    /\ calls' = Append(calls, Call("create", e.name, e.handler, e.role, staged, ok))
    /\ remote' = IF ok THEN With(remote, e.name, Props(e.handler, e.role))
                 ELSE remote
    /\ IF ok THEN Goto(next) ELSE Raise("ClientError")

\* lambda_.update_function_code(FunctionName, S3Bucket, S3Key)
update_function_code(name, fault, next) ==
    LET ok == ~fault /\ UpdateOk(name, staged) IN
    /\ calls' = Append(calls, Call("update", name, None, None, staged, ok))
    /\ remote' = remote
    /\ IF ok THEN Goto(next) ELSE Raise("ClientError")

\* lambdas.describe(name) raises KeyError for a name the snapshot lacks
DescribeRaises ==
    /\ calls' = calls
    /\ remote' = remote
    /\ Raise("KeyError")

\* 'Deleting functions': describe, then delete_function
DeletingFunctions ==
    /\ pc = "deleting"
    /\ LET name == delete[i]
           next == NextItem("deleting", i, delete, create, update) IN
       IF ~Contains(lambdas, name) THEN DescribeRaises
       ELSE \E fault \in BOOLEAN : delete_function(name, fault, next)
    /\ UNCHANGED <<zipvars, script, run, outcomes, lambdas, args, lists,
                   bucket, staged, log>>

\* 'Creating functions': create_function from the staged archive
CreatingFunctions ==
    /\ pc = "creating"
    /\ LET next == NextItem("creating", i, delete, create, update) IN
       \E fault \in BOOLEAN : create_function(create[i], fault, next)
    /\ UNCHANGED <<zipvars, script, run, outcomes, lambdas, args, lists,
                   bucket, staged, log>>

\* 'Updating functions': describe, then update_function_code
UpdatingFunctions ==
    /\ pc = "updating"
    /\ LET name == update[i]
           next == NextItem("updating", i, delete, create, update) IN
       IF ~Contains(lambdas, name) THEN DescribeRaises
       ELSE \E fault \in BOOLEAN : update_function_code(name, fault, next)
    /\ UNCHANGED <<zipvars, script, run, outcomes, lambdas, args, lists,
                   bucket, staged, log>>

(***************************************************************************)
(* lambda_deploy.py: the body of `with temp_s3file(...)`.                  *)
(***************************************************************************)
\* map(do_sync, sync) visits every entry of every manifest, in order
EnterDoSync(a) ==
    IF Len(Flatten(a.sync)) > 0 THEN <<"do_sync", 1>> ELSE <<"s3delete", 0>>

EnterMapUpdate(a) ==
    IF Len(a.update) > 0 THEN <<"map_update", 1>> ELSE EnterDoSync(a)

NextEntry ==
    IF i < Len(Flatten(args.sync)) THEN <<"do_sync", i + 1>> ELSE <<"s3delete", 0>>

\* map(do_create, create): do_create takes (name, handler, role) and map
\* passes it one 3-tuple, so the first --create item raises TypeError
MapDoCreate ==
    /\ pc = "map_create"
    /\ script = "lambda_deploy"
    /\ \E a \in CommandLine :
        /\ args' = a
        /\ IF Len(a.create) > 0 THEN Raise("TypeError")
           ELSE Goto(EnterMapUpdate(a))
    /\ UNCHANGED <<zipvars, script, run, outcomes, remote, lambdas, lists,
                   calls, bucket, staged, log>>

\* map(do_update, update): describe, then update_function_code
MapDoUpdate ==
    /\ pc = "map_update"
    /\ LET name == args.update[i]
           next == IF i < Len(args.update) THEN <<"map_update", i + 1>>
                   ELSE EnterDoSync(args) IN
       IF ~Contains(lambdas, name) THEN DescribeRaises
       ELSE \E fault \in BOOLEAN : update_function_code(name, fault, next)
    /\ UNCHANGED <<zipvars, script, run, outcomes, lambdas, args, lists,
                   bucket, staged, log>>

\* the closure do_sync binds to `do` for one manifest entry
Closure(L, e) ==
    [kind |-> IF Contains(L, e.name)
              THEN IF is_equivalent(L, e.name, e.handler, e.role)
                   THEN "do_update" ELSE "do_recreate"
              ELSE "do_create",
     name |-> e.name, handler |-> e.handler, role |-> e.role]

\* do_sync, 'Syncing <name>': choose update, recreate or create
DoSync ==
    /\ pc = "do_sync"
    /\ do' = Closure(lambdas, Flatten(args.sync)[i])
    /\ pc' = "do"
    /\ UNCHANGED <<zipvars, script, run, outcomes, err, remote, lambdas,
                   args, delete, create, update, i, calls, bucket, staged,
                   log>>

\* do(), when it is do_update
DoUpdate ==
    /\ pc = "do"
    /\ do.kind = "do_update"
    /\ \E fault \in BOOLEAN : update_function_code(do.name, fault, NextEntry)
    /\ UNCHANGED <<zipvars, script, run, outcomes, lambdas, args, lists,
                   bucket, staged, log>>

\* do(), when it is do_create; and the second half of do_recreate
DoCreate ==
    /\ \/ pc = "do" /\ do.kind = "do_create"
       \/ pc = "do_create"
    /\ \E fault \in BOOLEAN : create_function(do, fault, NextEntry)
    /\ UNCHANGED <<zipvars, script, run, outcomes, lambdas, args, lists,
                   bucket, staged, log>>

\* do(), when it is do_recreate: delete_function, then do_create
DoRecreate ==
    /\ pc = "do"
    /\ do.kind = "do_recreate"
    /\ \E fault \in BOOLEAN : delete_function(do.name, fault, <<"do_create", i>>)
    /\ UNCHANGED <<zipvars, script, run, outcomes, lambdas, args, lists,
                   bucket, staged, log>>

Next ==
    \/ TempZipfileEnter
    \/ TempDirEnter
    \/ CollectRequirements
    \/ TempDirExit
    \/ PackagingCode
    \/ ConnectingToAWS
    \/ TempS3fileEnter
    \/ Plan
    \/ DeletingFunctions
    \/ CreatingFunctions
    \/ UpdatingFunctions
    \/ MapDoCreate
    \/ MapDoUpdate
    \/ DoSync
    \/ DoUpdate
    \/ DoCreate
    \/ DoRecreate
    \/ TempS3fileExit
    \/ TempZipfileExit
    \/ Rerun

Spec == Init /\ [][Next]_vars

(***************************************************************************)
(* zip_tree: adding a file tree to the zip file.  A name is a sequence of  *)
(* characters, a path the sequence of names from below the root.           *)
(***************************************************************************)
N_m_py == <<"m", ".", "p", "y">>
N_m_pyc == <<"m", ".", "p", "y", "c">>
N_dot_e == <<".", "e">>
N_dot_pyc == <<".", "p", "y", "c">>
N_pyc == <<"p", "y", "c">>
N_p == <<"p">>
N_dot_g == <<".", "g">>
N_s == <<"s">>
N_dot_s == <<".", "s">>

FileNames == {N_m_py, N_m_pyc, N_dot_e, N_dot_pyc, N_pyc}
DirNames == {N_p, N_dot_g}
RootNames == {N_s, N_dot_s}

\* the directories below the root, down to MaxDepth
DirPaths == BSeq(DirNames, MaxDepth)

\* every file a tree may hold
FilePaths == {Append(d, f) : d \in DirPaths, f \in FileNames}

\* the sets of at most n files
RECURSIVE FileSets(_)
FileSets(n) ==
    IF n = 0 THEN {{}}
    ELSE {S \cup {f} : S \in FileSets(n - 1), f \in FilePaths} \cup FileSets(n - 1)

IGNORE_EXTENSIONS == {<<".", "p", "y", "c">>}

\* str.startswith('.')
startswith_dot(name) == Len(name) > 0 /\ name[1] = "."

\* name.rfind('.'), counted from 1; 0 when there is no dot
rfind_dot(name) ==
    IF \E k \in DOMAIN name : name[k] = "."
    THEN CHOOSE k \in DOMAIN name :
            name[k] = "." /\ \A j \in DOMAIN name : name[j] = "." => j <= k
    ELSE 0

\* os.path.splitext: the extension starts at the last dot, unless only dots
\* precede it
splitext(name) ==
    LET d == rfind_dot(name) IN
    IF d > 0 /\ \E k \in 1..(d - 1) : name[k] # "."
    THEN <<SubSeq(name, 1, d - 1), SubSeq(name, d, Len(name))>>
    ELSE <<name, <<>>>>

\* os.path.basename(path) of a directory of the walk; the root has its own name
basename(path) == IF path = <<>> THEN root ELSE path[Len(path)]

IsPrefix(p, q) == Len(p) <= Len(q) /\ SubSeq(q, 1, Len(p)) = p

\* os.walk: the files of directory path
FilesIn(path) == {f \in files : Len(f) = Len(path) + 1 /\ IsPrefix(path, f)}

\* os.walk: the subdirectories of directory path
DirsIn(path) ==
    {SubSeq(f, 1, Len(path) + 1) : f \in {g \in files : Len(g) > Len(path) + 1
                                                       /\ IsPrefix(path, g)}}

RECURSIVE SetToSeq(_)
SetToSeq(S) ==
    IF S = {} THEN <<>>
    ELSE LET x == CHOOSE y \in S : TRUE IN <<x>> \o SetToSeq(S \ {x})

\* one directory of os.walk(root, topdown=True) in zip_tree without
\* `dirs[:] = []`: a dot-directory is skipped and its subdirectories walked
zip_treeNoPrune ==
    /\ pc = "walk"
    /\ script = "deploy"
    /\ LET path == Head(pending)
           todo == SetToSeq(DirsIn(path)) \o Tail(pending) IN
       /\ archive' =
            IF startswith_dot(basename(path)) THEN archive
            ELSE archive \cup
                    {f \in FilesIn(path) :
                        /\ splitext(f[Len(f)])[2] \notin IGNORE_EXTENSIONS
                        /\ ~startswith_dot(f[Len(f)])}
       /\ pending' = todo
       /\ pc' = IF todo = <<>> THEN "walked" ELSE "walk"
    /\ UNCHANGED <<script, root, files, runvars>>

\* awslambda/deploy.py, zip_tree: one directory of os.walk(root, topdown=True)
zip_tree ==
    /\ pc = "walk"
    /\ script = "deploy"
    /\ LET path == Head(pending)
           pruned == startswith_dot(basename(path))
           todo == IF pruned THEN Tail(pending)
                   ELSE SetToSeq(DirsIn(path)) \o Tail(pending) IN
       /\ archive' =
            IF pruned THEN archive
            ELSE archive \cup
                    {f \in FilesIn(path) :
                        /\ splitext(f[Len(f)])[2] \notin IGNORE_EXTENSIONS
                        /\ ~startswith_dot(f[Len(f)])}
       /\ pending' = todo
       /\ pc' = IF todo = <<>> THEN "walked" ELSE "walk"
    /\ UNCHANGED <<script, root, files, runvars>>

\* lambda_deploy.py, zip_tree: one directory of os.walk(root, topdown=True)
zip_tree_lambda_deploy ==
    /\ pc = "walk"
    /\ script = "lambda_deploy"
    /\ LET path == Head(pending)
           todo == SetToSeq(DirsIn(path)) \o Tail(pending) IN
       /\ archive' = archive \cup
                        {f \in FilesIn(path) :
                            splitext(f[Len(f)])[2] \notin IGNORE_EXTENSIONS}
       /\ pending' = todo
       /\ pc' = IF todo = <<>> THEN "walked" ELSE "walk"
    /\ UNCHANGED <<script, root, files, runvars>>

\* zip_tree(zf, root) is called on a tree
InitZip ==
    /\ files \in FileSets(MaxTreeFiles)
    /\ script \in Scripts
    /\ root \in RootNames
    /\ pending = <<<<>>>>
    /\ archive = {}
    /\ pc = "walk"
    /\ run = 1
    /\ outcomes = <<>>
    /\ err = None
    /\ remote = Empty
    /\ lambdas = Empty
    /\ args = NoArgs
    /\ delete = <<>>
    /\ create = <<>>
    /\ update = <<>>
    /\ do = NoDo
    /\ i = 0
    /\ calls = <<>>
    /\ bucket = {}
    /\ staged = <<>>
    /\ log = <<>>

NextZip ==
    \/ zip_tree
    \/ zip_tree_lambda_deploy

SpecZip == InitZip /\ [][NextZip]_vars

(***************************************************************************)
(* Vocabulary of the properties.                                           *)
(***************************************************************************)
Count(s, x) == Cardinality({k \in DOMAIN s : s[k] = x})

NamesOf(s) == [k \in DOMAIN s |-> s[k].name]

\* every name the command line mentions, once per mention
Mentions(a) ==
    a.delete \o NamesOf(a.create) \o a.update \o NamesOf(Flatten(a.sync))

\* name n is mentioned exactly once in the inputs of the run
Once(n) == Count(Mentions(args), n) = 1

\* the manifest entries of the run, in order
SyncEntries == Flatten(args.sync)

\* deploy.py has filled its lists
PlanMade == script = "deploy" /\ staged # <<>> /\ pc # "plan"

\* lambda_deploy.py has chosen the closure for entry i and not yet run it
Chosen == script = "lambda_deploy" /\ pc = "do"

Absent(e) == e.name \notin DOMAIN lambdas

Same(e) ==
    /\ e.name \in DOMAIN lambdas
    /\ lambdas[e.name].handler = e.handler
    /\ lambdas[e.name].role = e.role

Differs(e) ==
    /\ e.name \in DOMAIN lambdas
    /\ \/ lambdas[e.name].handler # e.handler
       \/ lambdas[e.name].role # e.role

CreatesOf(n) == {k \in DOMAIN create : create[k].name = n}

ClosureOf(kind, e) ==
    [kind |-> kind, name |-> e.name, handler |-> e.handler, role |-> e.role]

\* positions of the calls of kind op for name n
CallsOf(op, n) == {k \in DOMAIN calls : calls[k].op = op /\ calls[k].name = n}

(***************************************************************************)
(* C1  Sync, create rule: a manifest entry whose name the snapshot lacks   *)
(* and that the inputs mention once gets exactly one planned create of     *)
(* (name, handler, role), and no planned delete or update.                 *)
(***************************************************************************)
C1_CreateRule ==
    /\ PlanMade =>
        \A e \in Range(SyncEntries) :
            (Absent(e) /\ Once(e.name)) =>
                /\ Count(create, e) = 1
                /\ Cardinality(CreatesOf(e.name)) = 1
                /\ e.name \notin Range(delete)
                /\ e.name \notin Range(update)
    /\ Chosen =>
        LET e == SyncEntries[i] IN
        (Absent(e) /\ Once(e.name)) => do = ClosureOf("do_create", e)

C1_Witness ==
    /\ PlanMade
    /\ pc = "done"
    /\ err = None
    /\ \E e \in Range(SyncEntries) :
        /\ Absent(e)
        /\ Once(e.name)
        /\ CallsOf("create", e.name) # {}

(***************************************************************************)
(* C2  Sync, update rule, as stated: a manifest entry whose name the       *)
(* snapshot holds with the same handler and role gets exactly one planned  *)
(* update for its name and no planned delete or create.                    *)
(***************************************************************************)
C2_UpdateRuleAsStated ==
    PlanMade =>
        \A e \in Range(SyncEntries) :
            Same(e) =>
                /\ Count(update, e.name) = 1
                /\ e.name \notin Range(delete)
                /\ CreatesOf(e.name) = {}

(***************************************************************************)
(* C2  Sync, update rule, amended: the same for an entry whose name the    *)
(* inputs of the run mention exactly once.                                 *)
(***************************************************************************)
C2_UpdateRule ==
    /\ PlanMade =>
        \A e \in Range(SyncEntries) :
            (Same(e) /\ Once(e.name)) =>
                /\ Count(update, e.name) = 1
                /\ e.name \notin Range(delete)
                /\ CreatesOf(e.name) = {}
    /\ Chosen =>
        LET e == SyncEntries[i] IN
        (Same(e) /\ Once(e.name)) => do = ClosureOf("do_update", e)

C2_Witness ==
    /\ PlanMade
    /\ pc = "done"
    /\ err = None
    /\ \E e \in Range(SyncEntries) :
        /\ Same(e)
        /\ Once(e.name)
        /\ CallsOf("update", e.name) # {}

(***************************************************************************)
(* C3  Sync, recreate rule, as stated: a manifest entry whose name the     *)
(* snapshot holds with another handler or role gets exactly one planned    *)
(* delete and one planned create of (name, handler, role), no planned      *)
(* update, and its delete is executed before its create.                   *)
(***************************************************************************)
DeleteBeforeCreate(n) ==
    \A c \in CallsOf("create", n) : \E d \in CallsOf("delete", n) : d < c

C3_RecreateRuleAsStated ==
    PlanMade =>
        \A e \in Range(SyncEntries) :
            Differs(e) =>
                /\ Count(delete, e.name) = 1
                /\ Count(create, e) = 1
                /\ Cardinality(CreatesOf(e.name)) = 1
                /\ e.name \notin Range(update)
                /\ DeleteBeforeCreate(e.name)

(***************************************************************************)
(* C3  Sync, recreate rule, amended: the same for an entry whose name the  *)
(* inputs of the run mention exactly once.                                 *)
(***************************************************************************)
C3_RecreateRule ==
    /\ PlanMade =>
        \A e \in Range(SyncEntries) :
            (Differs(e) /\ Once(e.name)) =>
                /\ Count(delete, e.name) = 1
                /\ Count(create, e) = 1
                /\ Cardinality(CreatesOf(e.name)) = 1
                /\ e.name \notin Range(update)
                /\ DeleteBeforeCreate(e.name)
    /\ (Chosen \/ (script = "lambda_deploy" /\ pc = "do_create")) =>
        LET e == SyncEntries[i] IN
        (Differs(e) /\ Once(e.name)) =>
            /\ do = ClosureOf("do_recreate", e)
            /\ pc = "do_create" => CallsOf("delete", e.name) # {}
    /\ script = "lambda_deploy" =>
        \A e \in Range(SyncEntries) :
            (Differs(e) /\ Once(e.name)) =>
                /\ DeleteBeforeCreate(e.name)
                /\ CallsOf("update", e.name) = {}

C3_Witness ==
    /\ PlanMade
    /\ pc = "done"
    /\ err = None
    /\ \E e \in Range(SyncEntries) :
        /\ Differs(e)
        /\ Once(e.name)
        /\ lambdas[e.name].handler = "m.h"
        /\ e.handler = "m.H"
        /\ \E d \in CallsOf("delete", e.name), c \in CallsOf("create", e.name) :
            d < c /\ calls[d].ok /\ calls[c].ok

(***************************************************************************)
(* C4  Staging cleanup: when a run has ended, by success or by a failure   *)
(* of the upload, the listing, or a delete, create or update call, the     *)
(* staged object of the run is not in the bucket.  (A run whose            *)
(* delete_object call itself fails is the one case left out.)              *)
(***************************************************************************)
Leaked(res) == Event("leak", res) \in Range(log)

Rank(op) == IF op = "delete" THEN 1 ELSE IF op = "create" THEN 2 ELSE 3

Prefix(s, t) == Len(s) <= Len(t) /\ \A k \in DOMAIN s : s[k] = t[k]

IsDelete(c) == c.op = "delete"

IsDiffering(e) == Differs(e)

\* the names to delete: the --delete items, then the entries to recreate
DeleteOrder == args.delete \o NamesOf(SelectSeq(SyncEntries, IsDiffering))

PhasesInOrder ==
    \A p, q \in DOMAIN calls : p < q => Rank(calls[p].op) <= Rank(calls[q].op)

C5_OrderAsStated ==
    /\ PhasesInOrder
    /\ Prefix(NamesOf(SelectSeq(calls, IsDelete)), DeleteOrder)

(***************************************************************************)
(* C5  Execution order, amended: the order above is that of                *)
(* awslambda/deploy.py; lambda_deploy.py issues the --update calls, then   *)
(* goes through the manifest entries one by one, issuing for each its      *)
(* update, its create, or its delete followed by its create.               *)
(***************************************************************************)
OpName(op, n) == <<op, n>>

EntryCalls(e) ==
    IF Same(e) THEN <<OpName("update", e.name)>>
    ELSE IF Differs(e) THEN <<OpName("delete", e.name), OpName("create", e.name)>>
    ELSE <<OpName("create", e.name)>>

RECURSIVE EntriesCalls(_)
EntriesCalls(es) ==
    IF es = <<>> THEN <<>> ELSE EntryCalls(Head(es)) \o EntriesCalls(Tail(es))

OneByOneOrder ==
    [k \in DOMAIN args.update |-> OpName("update", args.update[k])]
        \o EntriesCalls(SyncEntries)

C5_Order ==
    /\ script = "deploy" =>
        /\ PhasesInOrder
        /\ Prefix(NamesOf(SelectSeq(calls, IsDelete)), DeleteOrder)
    /\ script = "lambda_deploy" =>
        Prefix([k \in DOMAIN calls |-> OpName(calls[k].op, calls[k].name)],
               OneByOneOrder)

C5_Witness ==
    /\ script = "deploy"
    /\ pc = "done"
    /\ err = None
    /\ Len(args.delete) = 1
    /\ Len(calls) = 3
    /\ calls[1].op = "delete" /\ calls[1].name = args.delete[1]
    /\ calls[2].op = "delete"
    /\ calls[3].op = "create"

(***************************************************************************)
(* C7  Fail-fast batch, as stated: when a remote call fails, no call       *)
(* follows it, and no call at all has been issued for a manifest entry     *)
(* that comes after the entry of the failing call.                         *)
(***************************************************************************)
AllOnce == \A n \in Range(Mentions(args)) : Once(n)

\* the manifest entries after the entry named n
After(n) ==
    {m \in DOMAIN SyncEntries :
        \E k \in DOMAIN SyncEntries : SyncEntries[k].name = n /\ k < m}

Untouched(m) == \A q \in DOMAIN calls : calls[q].name # SyncEntries[m].name

C7_FailFastAsStated ==
    AllOnce =>
        \A p \in DOMAIN calls :
            ~calls[p].ok =>
                /\ p = Len(calls)
                /\ \A m \in After(calls[p].name) : Untouched(m)

(***************************************************************************)
(* C7  Fail-fast batch, amended: when a remote call fails, no call         *)
(* follows it.  In lambda_deploy.py no call has been issued for an entry   *)
(* after the failing one.  In awslambda/deploy.py, which runs all deletes, *)
(* then all creates, then all updates, an entry after the failing one has  *)
(* had no call of the failing call's kind or of a later kind, but may      *)
(* already have had its delete or create issued.                           *)
(***************************************************************************)
NoLaterKind(m, op) ==
    \A q \in DOMAIN calls :
        calls[q].name = SyncEntries[m].name => Rank(calls[q].op) < Rank(op)

C7_FailFast ==
    AllOnce =>
        \A p \in DOMAIN calls :
            ~calls[p].ok =>
                /\ p = Len(calls)
                /\ script = "lambda_deploy" =>
                    \A m \in After(calls[p].name) : Untouched(m)
                /\ script = "deploy" =>
                    \A m \in After(calls[p].name) : NoLaterKind(m, calls[p].op)

C7_Witness ==
    /\ script = "deploy"
    /\ pc = "done"
    /\ AllOnce
    /\ Len(SyncEntries) = 2
    /\ Len(calls) = 3
    /\ ~calls[3].ok
    /\ calls[3].op = "create"
    /\ calls[3].name = SyncEntries[1].name
    /\ calls[2].op = "delete"
    /\ calls[2].name = SyncEntries[2].name

(***************************************************************************)
(* C9  Scoped release: when a run has ended, the release of every          *)
(* temporary resource it acquired has been run, and a resource acquired    *)
(* while another was held is released before that other one.               *)
(***************************************************************************)
Resources == {"zipfile", "dir", "s3file"}

AcquiredAt(res) == {k \in DOMAIN log : log[k] = Event("acquire", res)}

\* the release of res: it removed the resource, or it failed and left it
ReleasedAt(res) ==
    {k \in DOMAIN log : log[k].res = res /\ log[k].ev \in {"release", "leak"}}

C9_ScopedRelease ==
    /\ pc = "done" =>
        \A res \in Resources :
            AcquiredAt(res) # {} =>
                /\ ReleasedAt(res) # {}
                /\ ~Leaked(res) => Event("release", res) \in Range(log)
    /\ \A r1, r2 \in Resources :
        \A a1 \in AcquiredAt(r1), a2 \in AcquiredAt(r2), e1 \in ReleasedAt(r1) :
            (a1 < a2 /\ a2 < e1) => \E e2 \in ReleasedAt(r2) : e2 < e1

C9_Witness ==
    /\ pc = "done"
    /\ err = "ClientError"
    /\ ~Leaked("s3file")
    /\ calls # <<>>
    /\ log = <<Event("acquire", "zipfile"), Event("acquire", "dir"),
               Event("release", "dir"), Event("acquire", "s3file"),
               Event("release", "s3file"), Event("release", "zipfile")>>

(***************************************************************************)
(* C10  Staged archive lifetime: a create or update call carries the       *)
(* bucket and key of the archive staged by its run, and at the moment it   *)
(* is issued the upload has completed, the object has not been deleted     *)
(* and is in the bucket.                                                   *)
(***************************************************************************)
CodeBearing(c) == c.op \in {"create", "update"}

C10_StagedLifetime ==
    [][(Len(calls') = Len(calls) + 1 /\ CodeBearing(calls'[Len(calls')])) =>
          /\ calls'[Len(calls')].code = <<S3Bucket, Key(run)>>
          /\ AcquiredAt("s3file") # {}
          /\ ReleasedAt("s3file") = {}
          /\ Key(run) \in bucket]_vars

C10_Witness ==
    /\ pc = "done"
    /\ err = None
    /\ Key(run) \notin bucket
    /\ \E p, q \in DOMAIN calls :
        /\ calls[p].op = "create" /\ calls[p].ok
        /\ calls[q].op = "update" /\ calls[q].ok
        /\ calls[p].code = <<S3Bucket, Key(run)>>

(***************************************************************************)
(* C6  Idempotence of sync: after a run given only manifests, with         *)
(* pairwise distinct names, has ended without an error, the next run of    *)
(* the same command line plans an update for every entry and no delete,    *)
(* create or recreate.                                                     *)
(***************************************************************************)
SyncOnly == args.delete = <<>> /\ args.create = <<>> /\ args.update = <<>>

SecondSync ==
    /\ run > 1
    /\ outcomes[run - 1] = None
    /\ SyncOnly
    /\ AllOnce

C6_Idempotence ==
    SecondSync =>
        /\ PlanMade =>
            /\ delete = <<>>
            /\ create = <<>>
            /\ update = NamesOf(SyncEntries)
        /\ Chosen => do = ClosureOf("do_update", SyncEntries[i])
        /\ \A k \in DOMAIN calls : calls[k].op = "update"

C6_Witness ==
    /\ SecondSync
    /\ PlanMade
    /\ pc = "done"
    /\ err = None
    /\ Len(calls) = 2
    /\ \E e \in Range(SyncEntries) : e.handler = "m.H" /\ Same(e)

(***************************************************************************)
(* C8  Archive construction, as stated: zip_tree adds exactly the files    *)
(* that have no '.pyc' extension, whose name does not start with '.', and  *)
(* that lie beneath no directory whose name starts with '.'.               *)
(***************************************************************************)
EndsWithPyc(name) ==
    /\ Len(name) >= 4
    /\ SubSeq(name, Len(name) - 3, Len(name)) = <<".", "p", "y", "c">>

\* the names of the directories a file lies beneath, the root among them
DirsAbove(f) == {root} \cup {f[k] : k \in 1..(Len(f) - 1)}

Hidden(f) ==
    \/ f[Len(f)][1] = "."
    \/ \E d \in DirsAbove(f) : d[1] = "."

Expected == {f \in files : ~EndsWithPyc(f[Len(f)]) /\ ~Hidden(f)}

C8_ArchiveAsStated == pc = "walked" => archive = Expected

(***************************************************************************)
(* C8  Archive construction, amended: the statement holds of zip_tree in   *)
(* awslambda/deploy.py, the root directory counting among the directories  *)
(* a file lies beneath.  zip_tree in lambda_deploy.py adds every file but  *)
(* those with a '.pyc' extension after a name that is not all dots:        *)
(* dotfiles and the files beneath dot-directories are added.               *)
(***************************************************************************)
OnlyDotsBefore(name) == \A k \in 1..(Len(name) - 4) : name[k] = "."

C8_Archive ==
    pc = "walked" =>
        /\ script = "deploy" => archive = Expected
        /\ script = "lambda_deploy" =>
            archive = {f \in files :
                          ~(EndsWithPyc(f[Len(f)]) /\ ~OnlyDotsBefore(f[Len(f)]))}

C8_Witness ==
    /\ pc = "walked"
    /\ script = "deploy"
    /\ root = N_s
    /\ <<N_dot_g, N_p, N_m_py>> \in files
    /\ <<N_p, N_m_py>> \in files
    /\ archive = {<<N_p, N_m_py>>}

(***************************************************************************)
(* C11  Convergence and frame of sync: in a run given only manifests, with *)
(* pairwise distinct names, every delete and every update is issued for a  *)
(* name that exists remotely at that moment and every create for a name    *)
(* that does not; and when the run has ended without an error, every       *)
(* manifest name is deployed with the manifest's handler and role, and     *)
(* every name outside the manifests has had no call and is deployed, or    *)
(* not, exactly as the snapshot found it.                                  *)
(***************************************************************************)
ManifestNames == Range(NamesOf(SyncEntries))

Converged ==
    \A e \in Range(SyncEntries) :
        /\ e.name \in DOMAIN remote
        /\ remote[e.name] = Props(e.handler, e.role)

NotCalled(n) == \A q \in DOMAIN calls : calls[q].name # n

Frame ==
    \A n \in Names \ ManifestNames :
        /\ NotCalled(n)
        /\ n \in DOMAIN remote <=> n \in DOMAIN lambdas
        /\ n \in DOMAIN remote => remote[n] = lambdas[n]

SyncRunEnded == pc = "done" /\ err = None /\ SyncOnly /\ AllOnce

\* the call a step issues meets the remote state it needs
CallFitsRemote ==
    (SyncOnly /\ AllOnce /\ Len(calls') = Len(calls) + 1) =>
        LET c == calls'[Len(calls')] IN
        /\ c.op \in {"delete", "update"} => c.name \in DOMAIN remote
        /\ c.op = "create" => c.name \notin DOMAIN remote

C11_ConvergenceAndFrame ==
    /\ [](SyncRunEnded => (Converged /\ Frame))
    /\ [][CallFitsRemote]_vars

C11_Witness ==
    /\ SyncRunEnded
    /\ Len(SyncEntries) = 1
    /\ DOMAIN lambdas = Names
    /\ LET e == SyncEntries[1] IN
        /\ Differs(e)
        /\ remote[e.name] = Props(e.handler, e.role)
        /\ \E d \in CallsOf("delete", e.name), c \in CallsOf("create", e.name) :
            d < c /\ calls[d].ok /\ calls[c].ok
        /\ \A n \in Names \ {e.name} : NotCalled(n) /\ remote[n] = lambdas[n]

=============================================================================
